---- MODULE Spec2Model ----
(***************************************************************************)
(* Model of the "up" session of cli/cmd/up.go: RunUp (the foreground),     *)
(* UpContext.Activate (the controller goroutine) with devMode, startSync,  *)
(* forceLocalSyncState, WaitUntilExitOrInterrupt and shutdown, together    *)
(* with the goroutines they spawn and the channels between them.           *)
(*                                                                         *)
(* Granularity: one action per blocking call or channel operation of the   *)
(* controller; straight-line code between two blocking points belongs to   *)
(* the action of the first one. Reads of UpContext fields shared between   *)
(* goroutines are sequentially consistent. When RunUp has returned the     *)
(* command returns and the process exits: no goroutine runs any more.      *)
(***************************************************************************)
EXTENDS Integers, Sequences, FiniteSets, TLC

\* ---- bounds ------------------------------------------------------------
\* number of reconnections (passes through `continue`) explored
MaxReconnects == 1
\* longest list of user-declared forwards (Dev.Forward) explored
MaxForwards == 2

\* ---- program constants ---------------------------------------------------
\* capacity of Disconnect, Running, Exit, ErrChan and stop
ChanCap == 1
\* local port of the sync-control binding (up.Sy.RemotePort)
SyRemotePort == "RemotePort"
\* local port of the sync-GUI binding (up.Sy.RemoteGUIPort)
SyGUIPort == "RemoteGUIPort"
\* local ports a user-declared forward may name
UserPorts == {"RemoteGUIPort", "8080"}

Iters == 1..(MaxReconnects + 1)

ErrLostConnection == "ErrLostConnection"
ErrCommandFailed == "ErrCommandFailed"

\* errors of the calls of devMode, in call order
DevModeErrors == {"errClientGet", "errSyncthingNew", "errDevModeOn", "errGetDevPod"}
\* errors of the Forwarder.Add calls of startSync
AddErrors == {"errAddSync", "errAddGUI", "errAddUser"}
\* errors of the calls of startSync
SyncErrors == {"errSyRun", "errPing", "errDrain1"} \cup AddErrors
\* errors of the calls of forceLocalSyncState
FinalizeErrors == {"errOverride", "errDrain2", "errUpdateConfig", "errRestart"}

StepNames == {"devMode", "syRun", "addSync", "addGUI", "addUser", "fwdStart",
              "ping", "drain1", "override", "drain2", "setType", "restart",
              "cmdStart"}

\* positions of the controller inside startSync
SyncPcs == {"syRun", "addSync", "addGUI", "addUser", "ping", "drain1"}
\* positions of the controller inside forceLocalSyncState
FinalizePcs == {"override", "drain2", "setType", "restart"}

ForwardLists == UNION {[1..n -> UserPorts] : n \in 0..MaxForwards}

VARIABLES
    pc,          \* position of the controller goroutine (Activate)
    attempt,     \* number of `continue`s taken so far
    attach,      \* local `attach` of Activate
    prevError,   \* local `prevError` of Activate
    err,         \* local `err` of Activate, the value about to be sent on Exit
    fi,          \* index of the range loop over up.Dev.Forward
    steps,       \* outcome of each call of the current iteration
    ctxCur,      \* up.Context / up.Cancel: id of the context, 0 is nil
    cancelled,   \* ids of the contexts that are cancelled
    syId,        \* up.Sy: id of the engine, 0 is nil
    syType,      \* up.Sy.Type
    syFirstDrain,\* outcome of the first WaitForCompletion of up.Sy
    syConnected, \* what up.Sy.IsConnected() reported when it was last read
    fwdCur,      \* up.Forwarder: id of the manager, 0 is nil
    fwdPorts,    \* local ports registered with up.Forwarder
    fwdStarted,  \* ids of the managers on which Start was invoked
    fwdStopped,  \* ids of the managers on which Stop was invoked
    devForward,  \* up.Dev.Forward: the local ports of the user forwards
    Running,     \* channel up.Running
    Disconnect,  \* channel up.Disconnect (number of queued notifications)
    ErrChan,     \* channel up.ErrChan (number of queued reports)
    Exit,        \* channel up.Exit
    shellSt,     \* per iteration: state of the cmd.Wait goroutine
    shellRes,    \* per iteration: what cmd.Wait returned
    mon,         \* iterations that started a Sy.Monitor goroutine
    wg,          \* counter of up.WG without the Sy.Monitor goroutines
    done,        \* per caller of shutdown: state of its `done` channel
    sdVia,       \* per caller of shutdown: the select case it last returned by
    stopTasks,   \* number of Forwarder-stop goroutines not yet run
    signalled,   \* iterations whose shell got the http.Get stop request
    exitLog,     \* every value sent on up.Exit, in order
    mpc,         \* position of RunUp
    ret,         \* what RunUp returns
    intPhase,    \* phase of the controller when RunUp took the interrupt
    intCtx,      \* up.Cancel's context when RunUp took the interrupt
    calls,       \* this iteration's number of OverrideChanges and of mode flips
    errLogged,   \* the running monitor has logged a report from up.ErrChan
    \* ---- `okteto pipeline destroy` (cmd/pipeline/destroy.go) ----
    dpc,         \* position of RunE
    wait,        \* flag --wait
    timeout,     \* flag --timeout, in seconds
    pipeline,    \* the pipeline in the control plane
    legacy,      \* the control plane answers without an action
    apiResult,   \* what oktetoClient.DestroyPipeline returned
    resp,        \* variable `resp` of destroyPipeline
    exit1,       \* channel `exit` of destroyPipeline
    exit2,       \* channel `exit` of waitUntilDestroyed
    stop,        \* interrupts queued on the `stop` channel being selected on
    wpc,         \* position of the goroutine of waitUntilDestroyed
    wres,        \* what waitToBeDestroyed returned
    elapsed,     \* seconds since the tickers were created
    tC,          \* channel t.C (number of buffered ticks)
    toC,         \* channel to.C (number of buffered ticks)
    expired,     \* `to` has ticked while the pipeline was there and not failed
    latePolls,   \* status polls made after that
    dret         \* what RunE returns

vars == <<pc, attempt, attach, prevError, err, fi, steps, ctxCur, cancelled,
          syId, syType, syFirstDrain, syConnected, fwdCur, fwdPorts,
          fwdStarted, fwdStopped, devForward, Running, Disconnect, ErrChan,
          Exit, shellSt, shellRes, mon, wg, done, sdVia, stopTasks,
          signalled, exitLog, mpc, ret, intPhase, intCtx, calls,
          errLogged, dpc, wait, timeout, pipeline, legacy, apiResult, resp, exit1,
          exit2, stop, wpc, wres, elapsed, tC, toC, expired, latePolls,
          dret>>

upVars == <<pc, attempt, attach, prevError, err, fi, steps, ctxCur, cancelled,
            syId, syType, syFirstDrain, syConnected, fwdCur, fwdPorts,
            fwdStarted, fwdStopped, devForward, Running, Disconnect, ErrChan,
            Exit, shellSt, shellRes, mon, wg, done, sdVia, stopTasks,
            signalled, exitLog, mpc, ret, intPhase, intCtx, calls,
            errLogged>>
destroyVars == <<dpc, wait, timeout, pipeline, legacy, apiResult, resp,
                 exit1, exit2, stop, wpc, wres, elapsed, tC, toC, expired,
                 latePolls, dret>>

ctlVars == <<pc, attempt, attach, prevError, err, fi, steps>>
ctxVars == <<ctxCur, cancelled>>
syVars == <<syId, syType, syFirstDrain>>
fwdVars == <<fwdCur, fwdPorts, fwdStarted, fwdStopped>>
chanVars == <<Running, Disconnect, ErrChan, Exit>>
taskVars == <<shellSt, shellRes, mon, wg>>
sdVars == <<done, sdVia, stopTasks>>
Callers == {"main", "ctl"}
mainVars == <<mpc, ret, intPhase, intCtx>>

NoCalls == [override |-> 0, setType |-> 0]

\* the iteration the controller is in
iter == attempt + 1

NoSteps == [s \in StepNames |-> "no"]

Mark(s, ok) == [steps EXCEPT ![s] = IF ok THEN "ok" ELSE "fail"]

\* RunUp, lines 110-124: the UpContext literal, signal.Notify, go Activate
UpInit ==
    /\ pc = "start"
    /\ attempt = 0
    /\ attach = FALSE
    /\ prevError = "nil"
    /\ err = "nil"
    /\ fi = 1
    /\ steps = NoSteps
    /\ ctxCur = 0
    /\ cancelled = {}
    /\ syId = 0
    /\ syType = "none"
    /\ syFirstDrain = "none"
    /\ syConnected = TRUE
    /\ fwdCur = 0
    /\ fwdPorts = {}
    /\ fwdStarted = {}
    /\ fwdStopped = {}
    /\ devForward \in ForwardLists
    /\ Running = <<>>
    /\ Disconnect = 0
    /\ ErrChan = 0
    /\ Exit = <<>>
    /\ shellSt = [i \in Iters |-> "none"]
    /\ shellRes = [i \in Iters |-> "none"]
    /\ mon = {}
    /\ wg = 0
    /\ done = [c \in Callers |-> "none"]
    /\ sdVia = [c \in Callers |-> "none"]
    /\ stopTasks = 0
    /\ signalled = {}
    /\ exitLog = <<>>
    /\ mpc = "select"
    /\ ret = "none"
    /\ intPhase = "none"
    /\ intCtx = 0
    /\ calls = NoCalls
    /\ errLogged = FALSE

\* state of the destroy command when it is not the command that runs
DestroyIdle ==
    /\ dpc = "done"
    /\ wait = FALSE
    /\ timeout = 0
    /\ pipeline = "absent"
    /\ legacy = FALSE
    /\ apiResult = "pending"
    /\ resp = "nil"
    /\ exit1 = <<>>
    /\ exit2 = <<>>
    /\ stop = 0
    /\ wpc = "none"
    /\ wres = "none"
    /\ elapsed = 0
    /\ tC = 0
    /\ toC = 0
    /\ expired = FALSE
    /\ latePolls = 0
    /\ dret = "none"

Init == UpInit /\ DestroyIdle

\* ---- the controller: Activate --------------------------------------------

\* `up.Exit <- err; return` after a failed call: the send itself is SendExit
Fail(e) ==
    /\ err' = e
    /\ pc' = "sendExit"

\* Activate, lines 141-144
ActivateBegin ==
    /\ mpc # "returned"
    /\ pc = "start"
    /\ wg' = wg + 1
    /\ pc' = "newContext"
    /\ UNCHANGED <<attempt, attach, prevError, err, fi, steps, ctxVars, syVars,
                   syConnected, fwdVars, devForward, errLogged, destroyVars, calls, chanVars, shellSt,
                   shellRes, mon, sdVars, signalled, exitLog, mainVars>>

\* Activate, lines 147-149: a fresh context for the iteration
NewContext ==
    /\ mpc # "returned"
    /\ pc = "newContext"
    /\ ctxCur' = iter
    /\ steps' = NoSteps
    /\ calls' = NoCalls
    /\ fi' = 1
    /\ pc' = "devMode"
    /\ UNCHANGED <<attempt, attach, prevError, err, cancelled, syVars,
                   syConnected, fwdVars, devForward, errLogged, destroyVars, chanVars, taskVars,
                   sdVars, signalled, exitLog, mainVars>>

DevModeFail_RetriesOnReconnect(e) ==
    IF attach
       THEN /\ pc' = "newContext"
            /\ UNCHANGED err
       ELSE Fail(e)

\* Activate, lines 154-157: a failed devMode is sent on Exit, Activate returns
DevModeFail(e) == Fail(e)

\* syncthing.New: a new engine, local-to-remote only until told otherwise
SyncthingNewType == "sendonly"

\* Activate lines 151-157 with devMode, lines 249-274
DevMode ==
    /\ mpc # "returned"
    /\ pc = "devMode"
    /\ attach' = TRUE
    /\ \E out \in {"ok"} \cup DevModeErrors :
         /\ IF out = "errClientGet"
               THEN UNCHANGED syVars
               ELSE IF out = "errSyncthingNew"
                       THEN /\ syId' = 0
                            /\ syType' = "none"
                            /\ syFirstDrain' = "none"
                       ELSE /\ syId' = iter
                            /\ syType' = SyncthingNewType
                            /\ syFirstDrain' = "pending"
         /\ steps' = Mark("devMode", out = "ok")
         /\ IF out = "ok"
               THEN /\ pc' = "syRun"
                    /\ UNCHANGED err
               ELSE DevModeFail(out)
    /\ UNCHANGED <<attempt, prevError, fi, ctxVars, syConnected, fwdVars,
                   devForward, errLogged, destroyVars, calls, chanVars, taskVars, sdVars, signalled, exitLog,
                   mainVars>>

\* Activate lines 163-168: what a failed call of startSync leads to
SyncFail(e) == Fail(e)

\* startSync, lines 277-279: up.Sy.Run
SyRun ==
    /\ mpc # "returned"
    /\ pc = "syRun"
    /\ \E ok \in BOOLEAN :
         /\ steps' = Mark("syRun", ok)
         /\ IF ok
               THEN /\ pc' = "addSync"
                    /\ UNCHANGED err
               ELSE SyncFail("errSyRun")
    /\ UNCHANGED <<attempt, attach, prevError, fi, ctxVars, syVars,
                   syConnected, fwdVars, devForward, errLogged, destroyVars, calls, chanVars, taskVars,
                   sdVars, signalled, exitLog, mainVars>>

\* PortForwardManager.Add: a local port is registered at most once
AddOk(ports, local) == local \notin ports

\* startSync, lines 281-284: NewPortForwardManager, Add of the sync-control port
AddSync ==
    /\ mpc # "returned"
    /\ pc = "addSync"
    /\ fwdCur' = iter
    /\ LET ok == AddOk({}, SyRemotePort) IN
         /\ fwdPorts' = IF ok THEN {SyRemotePort} ELSE {}
         /\ steps' = Mark("addSync", ok)
         /\ IF ok
               THEN /\ pc' = "addGUI"
                    /\ UNCHANGED err
               ELSE SyncFail("errAddSync")
    /\ UNCHANGED <<attempt, attach, prevError, fi, ctxVars, syVars,
                   syConnected, fwdStarted, fwdStopped, devForward, errLogged, destroyVars, calls, chanVars,
                   taskVars, sdVars, signalled, exitLog, mainVars>>

\* startSync, lines 285-287: Add of the sync-GUI port
AddGUI ==
    /\ mpc # "returned"
    /\ pc = "addGUI"
    /\ LET ok == AddOk(fwdPorts, SyGUIPort) IN
         /\ fwdPorts' = IF ok THEN fwdPorts \cup {SyGUIPort} ELSE fwdPorts
         /\ steps' = Mark("addGUI", ok)
         /\ IF ok
               THEN /\ pc' = "addUser"
                    /\ UNCHANGED err
               ELSE SyncFail("errAddGUI")
    /\ UNCHANGED <<attempt, attach, prevError, fi, ctxVars, syVars,
                   syConnected, fwdCur, fwdStarted, fwdStopped, devForward, errLogged, destroyVars, calls,
                   chanVars, taskVars, sdVars, signalled, exitLog, mainVars>>

AddUser_IgnoresError ==
    /\ mpc # "returned"
    /\ pc = "addUser"
    /\ fi <= Len(devForward)
    /\ LET ok == AddOk(fwdPorts, devForward[fi]) IN
         /\ fwdPorts' = IF ok THEN fwdPorts \cup {devForward[fi]} ELSE fwdPorts
         /\ fi' = fi + 1
         /\ steps' = IF ~ok THEN Mark("addUser", FALSE)
                      ELSE IF fi = Len(devForward)
                              THEN Mark("addUser", TRUE) ELSE steps
         /\ UNCHANGED <<pc, err>>
    /\ UNCHANGED <<attempt, attach, prevError, ctxVars, syVars, syConnected,
                   fwdCur, fwdStarted, fwdStopped, devForward, errLogged, destroyVars, calls, chanVars,
                   taskVars, sdVars, signalled, exitLog, mainVars>>

\* startSync, lines 289-293: one pass of the loop over up.Dev.Forward
AddUser ==
    /\ mpc # "returned"
    /\ pc = "addUser"
    /\ fi <= Len(devForward)
    /\ LET ok == AddOk(fwdPorts, devForward[fi]) IN
         /\ fwdPorts' = IF ok THEN fwdPorts \cup {devForward[fi]} ELSE fwdPorts
         /\ IF ok
               THEN /\ fi' = fi + 1
                    /\ steps' = IF fi = Len(devForward)
                                   THEN Mark("addUser", TRUE) ELSE steps
                    /\ UNCHANGED <<pc, err>>
               ELSE /\ steps' = Mark("addUser", FALSE)
                    /\ UNCHANGED fi
                    /\ SyncFail("errAddUser")
    /\ UNCHANGED <<attempt, attach, prevError, ctxVars, syVars, syConnected,
                   fwdCur, fwdStarted, fwdStopped, devForward, errLogged, destroyVars, calls, chanVars,
                   taskVars, sdVars, signalled, exitLog, mainVars>>

\* startSync, lines 295-296: Forwarder.Start and go up.Sy.Monitor
FwdStart ==
    /\ mpc # "returned"
    /\ pc = "addUser"
    /\ fi > Len(devForward)
    /\ fwdStarted' = fwdStarted \cup {fwdCur}
    /\ mon' = mon \cup {iter}
    /\ steps' = [steps EXCEPT !["fwdStart"] = "ok",
                              !["addUser"] = "ok"]
    /\ pc' = "ping"
    /\ UNCHANGED <<attempt, attach, prevError, err, fi, ctxVars, syVars,
                   syConnected, fwdCur, fwdPorts, fwdStopped, devForward, errLogged, destroyVars, calls,
                   chanVars, shellSt, shellRes, wg, sdVars, signalled,
                   exitLog, mainVars>>

\* startSync, lines 298-300: up.Sy.WaitForPing
Ping ==
    /\ mpc # "returned"
    /\ pc = "ping"
    /\ \E ok \in BOOLEAN :
         /\ steps' = Mark("ping", ok)
         /\ IF ok
               THEN /\ pc' = "drain1"
                    /\ UNCHANGED err
               ELSE SyncFail("errPing")
    /\ UNCHANGED <<attempt, attach, prevError, fi, ctxVars, syVars,
                   syConnected, fwdVars, devForward, errLogged, destroyVars, calls, chanVars, taskVars,
                   sdVars, signalled, exitLog, mainVars>>

AfterDrain1_IgnoresError(ok) ==
    /\ pc' = "override"
    /\ UNCHANGED err

\* startSync lines 302-306, Activate lines 165-168: the first drain decides
AfterDrain1(ok) ==
    IF ok
       THEN /\ pc' = "override"
            /\ UNCHANGED err
       ELSE SyncFail("errDrain1")

\* startSync, lines 302-306: the first up.Sy.WaitForCompletion
Drain1 ==
    /\ mpc # "returned"
    /\ pc = "drain1"
    /\ \E ok \in BOOLEAN :
         /\ steps' = Mark("drain1", ok)
         /\ syFirstDrain' = IF ok THEN "ok" ELSE "failed"
         /\ AfterDrain1(ok)
    /\ UNCHANGED <<attempt, attach, prevError, fi, ctxVars, syId, syType,
                   syConnected, fwdVars, devForward, errLogged, destroyVars, calls, chanVars, taskVars,
                   sdVars, signalled, exitLog, mainVars>>

\* forceLocalSyncState, lines 310-312: up.Sy.OverrideChanges
Override ==
    /\ mpc # "returned"
    /\ pc = "override"
    /\ \E ok \in BOOLEAN :
         /\ steps' = Mark("override", ok)
         /\ IF ok
               THEN /\ pc' = "drain2"
                    /\ UNCHANGED err
               ELSE Fail("errOverride")
    /\ calls' = [calls EXCEPT !.override = @ + 1]
    /\ UNCHANGED <<attempt, attach, prevError, fi, ctxVars, syVars,
                   syConnected, fwdVars, devForward, errLogged, destroyVars, chanVars, taskVars,
                   sdVars, signalled, exitLog, mainVars>>

\* forceLocalSyncState, lines 314-316: the second up.Sy.WaitForCompletion
Drain2 ==
    /\ mpc # "returned"
    /\ pc = "drain2"
    /\ \E ok \in BOOLEAN :
         /\ steps' = Mark("drain2", ok)
         /\ IF ok
               THEN /\ pc' = "setType"
                    /\ UNCHANGED err
               ELSE Fail("errDrain2")
    /\ UNCHANGED <<attempt, attach, prevError, fi, ctxVars, syVars,
                   syConnected, fwdVars, devForward, errLogged, destroyVars, calls, chanVars, taskVars,
                   sdVars, signalled, exitLog, mainVars>>

\* forceLocalSyncState, lines 318-321: Type = "sendreceive", UpdateConfig
SetType_SkipsFlip ==
    /\ mpc # "returned"
    /\ pc = "setType"
    /\ \E ok \in BOOLEAN :
         /\ steps' = Mark("setType", ok)
         /\ IF ok
               THEN /\ pc' = "restart"
                    /\ UNCHANGED err
               ELSE Fail("errUpdateConfig")
    /\ UNCHANGED <<attempt, attach, prevError, fi, ctxVars, syId, syType,
                   syFirstDrain, syConnected, fwdVars, devForward, errLogged, destroyVars, calls,
                   chanVars, taskVars, sdVars, signalled, exitLog, mainVars>>

SetType ==
    /\ mpc # "returned"
    /\ pc = "setType"
    /\ syType' = "sendreceive"
    /\ calls' = [calls EXCEPT !.setType = @ + 1]
    /\ \E ok \in BOOLEAN :
         /\ steps' = Mark("setType", ok)
         /\ IF ok
               THEN /\ pc' = "restart"
                    /\ UNCHANGED err
               ELSE Fail("errUpdateConfig")
    /\ UNCHANGED <<attempt, attach, prevError, fi, ctxVars, syId,
                   syFirstDrain, syConnected, fwdVars, devForward, errLogged, destroyVars, chanVars,
                   taskVars, sdVars, signalled, exitLog, mainVars>>

AfterRestart_IgnoresError(ok) ==
    /\ pc' = "cmdStart"
    /\ UNCHANGED err

\* forceLocalSyncState line 323, Activate lines 176-179: Restart decides
AfterRestart(ok) ==
    IF ok
       THEN /\ pc' = "cmdStart"
            /\ UNCHANGED err
       ELSE Fail("errRestart")

\* forceLocalSyncState, line 323, and Activate lines 176-179: up.Sy.Restart
Restart ==
    /\ mpc # "returned"
    /\ pc = "restart"
    /\ \E ok \in BOOLEAN :
         /\ steps' = Mark("restart", ok)
         /\ AfterRestart(ok)
    /\ UNCHANGED <<attempt, attach, prevError, fi, ctxVars, syVars,
                   syConnected, fwdVars, devForward, errLogged, destroyVars, calls, chanVars, taskVars,
                   sdVars, signalled, exitLog, mainVars>>

\* Activate, lines 181-202: cmd.Start and the goroutine that waits for it
CmdStart ==
    /\ mpc # "returned"
    /\ pc = "cmdStart"
    /\ \E ok \in BOOLEAN :
         /\ steps' = Mark("cmdStart", ok)
         /\ IF ok
               THEN /\ shellSt' = [shellSt EXCEPT ![iter] = "running"]
                    /\ wg' = wg + 1
                    /\ pc' = "monitor"
                    /\ UNCHANGED err
               ELSE /\ Fail("errCmdStart")
                    /\ UNCHANGED <<shellSt, wg>>
    /\ UNCHANGED <<attempt, attach, prevError, fi, ctxVars, syVars,
                   syConnected, fwdVars, devForward, errLogged, destroyVars, calls, chanVars, shellRes, mon,
                   sdVars, signalled, exitLog, mainVars>>

\* ---- the monitor: WaitUntilExitOrInterrupt -------------------------------

\* lines 231-235: what a completion read from up.Running is returned as
RunningResult(res) == IF res # "nil" THEN ErrCommandFailed ELSE "nil"

DisconnectResult_CommandFailed == ErrCommandFailed

\* line 244: what a disconnect notification is returned as
DisconnectResult == ErrLostConnection

\* lines 223-228: case <-up.Context.Done()
MonCtxDone ==
    /\ mpc # "returned"
    /\ pc = "monitor"
    /\ ctxCur \in cancelled
    /\ signalled' = signalled \cup {iter}
    /\ prevError' = "nil"
    /\ pc' = "classify"
    /\ errLogged' = FALSE
    /\ UNCHANGED <<attempt, attach, err, fi, steps, ctxVars, syVars,
                   syConnected, fwdVars, devForward, destroyVars, calls, chanVars, taskVars,
                   sdVars, exitLog, mainVars>>

\* lines 230-235: case err := <-up.Running
MonRunning ==
    /\ mpc # "returned"
    /\ pc = "monitor"
    /\ Running # <<>>
    /\ prevError' = RunningResult(Head(Running).res)
    /\ Running' = Tail(Running)
    /\ pc' = "classify"
    /\ errLogged' = FALSE
    /\ UNCHANGED <<attempt, attach, err, fi, steps, ctxVars, syVars,
                   syConnected, fwdVars, devForward, destroyVars, calls, Disconnect, ErrChan,
                   Exit, taskVars, sdVars, signalled, exitLog, mainVars>>

MonErrChan_EndsMonitor ==
    /\ mpc # "returned"
    /\ pc = "monitor"
    /\ ErrChan > 0
    /\ ErrChan' = ErrChan - 1
    /\ errLogged' = TRUE
    /\ prevError' = ErrCommandFailed
    /\ pc' = "classify"
    /\ UNCHANGED <<attempt, attach, err, fi, steps, ctxVars, syVars,
                   syConnected, fwdVars, devForward, destroyVars, calls,
                   Running, Disconnect, Exit, taskVars, sdVars, signalled,
                   exitLog, mainVars>>

\* lines 237-238: case err := <-up.ErrChan, logged, the loop goes on
MonErrChan ==
    /\ mpc # "returned"
    /\ pc = "monitor"
    /\ ErrChan > 0
    /\ ErrChan' = ErrChan - 1
    /\ errLogged' = TRUE
    /\ UNCHANGED <<ctlVars, ctxVars, syVars, syConnected, fwdVars, devForward, destroyVars, calls,
                   Running, Disconnect, Exit, taskVars, sdVars,
                   signalled, exitLog, mainVars>>

\* lines 239-244: case <-up.Disconnect
MonDisconnect ==
    /\ mpc # "returned"
    /\ pc = "monitor"
    /\ Disconnect > 0
    /\ Disconnect' = Disconnect - 1
    /\ signalled' = signalled \cup {iter}
    /\ prevError' = DisconnectResult
    /\ pc' = "classify"
    /\ errLogged' = FALSE
    /\ UNCHANGED <<attempt, attach, err, fi, steps, ctxVars, syVars,
                   syConnected, fwdVars, devForward, destroyVars, calls, Running, ErrChan, Exit,
                   taskVars, sdVars, exitLog, mainVars>>

\* ---- shutdown ------------------------------------------------------------

ShutdownBegin_NoCancel(c) ==
    /\ done' = [done EXCEPT ![c] = "waiting"]
    /\ stopTasks' = stopTasks + 1
    /\ UNCHANGED <<ctxCur, cancelled, sdVia>>

ShutdownBegin_CancelOnlyFromRunUp(c) ==
    /\ cancelled' = IF c = "main" /\ ctxCur # 0
                       THEN cancelled \cup {ctxCur} ELSE cancelled
    /\ done' = [done EXCEPT ![c] = "waiting"]
    /\ stopTasks' = stopTasks + 1
    /\ UNCHANGED <<ctxCur, sdVia>>

\* shutdown, lines 328-348: Cancel, the WG waiter and the Forwarder stopper
ShutdownBegin(c) ==
    /\ cancelled' = IF ctxCur # 0 THEN cancelled \cup {ctxCur} ELSE cancelled
    /\ done' = [done EXCEPT ![c] = "waiting"]
    /\ stopTasks' = stopTasks + 1
    /\ UNCHANGED <<ctxCur, sdVia>>

ShutdownSelect_WaitsForTasks(c) ==
    /\ done[c] = "closed"
    /\ sdVia' = [sdVia EXCEPT ![c] = "done"]
    /\ done' = [done EXCEPT ![c] = "none"]
    /\ UNCHANGED stopTasks

\* shutdown, lines 350-357: select on done and on time.After
ShutdownSelect(c) ==
    /\ \E branch \in {"done", "timeout"} :
         /\ branch = "done" => done[c] = "closed"
         /\ sdVia' = [sdVia EXCEPT ![c] = branch]
    /\ done' = [done EXCEPT ![c] = "none"]
    /\ UNCHANGED stopTasks

\* shutdown, lines 335-340: the goroutine that waits for up.WG
WGWaiter ==
    /\ mpc # "returned"
    /\ \E c \in Callers :
         /\ done[c] = "waiting"
         /\ wg + Cardinality(mon \ cancelled) = 0
         /\ done' = [done EXCEPT ![c] = "closed"]
    /\ UNCHANGED <<ctlVars, ctxVars, syVars, syConnected, fwdVars, devForward, errLogged, destroyVars, calls,
                   chanVars, taskVars, sdVia, stopTasks, signalled, exitLog,
                   mainVars>>

\* shutdown, lines 342-348: the goroutine that stops up.Forwarder
ForwarderStopTask ==
    /\ mpc # "returned"
    /\ stopTasks > 0
    /\ stopTasks' = stopTasks - 1
    /\ fwdStopped' = IF fwdCur # 0 THEN fwdStopped \cup {fwdCur} ELSE fwdStopped
    /\ UNCHANGED <<ctlVars, ctxVars, syVars, syConnected, fwdCur, fwdPorts,
                   fwdStarted, devForward, errLogged, destroyVars, calls, chanVars, taskVars, done, sdVia,
                   signalled, exitLog, mainVars>>

\* ---- Activate: recover or exit -------------------------------------------

Recoverable_IgnoresConnectivity(pe, connected) ==
    pe # "nil" /\ (pe = ErrLostConnection \/ pe = ErrCommandFailed)

\* Activate, lines 206-207: the condition of the reconnect branch
Recoverable(pe, connected) ==
    pe # "nil" /\ (pe = ErrLostConnection \/ (pe = ErrCommandFailed /\ ~connected))

\* Activate, lines 205-215: reconnect (shutdown up to its select) or exit
Classify ==
    /\ mpc # "returned"
    /\ pc = "classify"
    /\ \E connected \in BOOLEAN :
         /\ syConnected' = IF prevError = ErrCommandFailed
                               THEN connected ELSE syConnected
         /\ IF Recoverable(prevError, connected)
               THEN /\ ShutdownBegin("ctl")
                    /\ pc' = "sd_wait"
                    /\ UNCHANGED err
               ELSE /\ Fail("nil")
                    /\ UNCHANGED <<ctxVars, sdVars>>
    /\ UNCHANGED <<attempt, attach, prevError, fi, steps, syVars,
                   fwdVars, devForward, errLogged, destroyVars, calls, chanVars, taskVars, signalled,
                   exitLog, mainVars>>

\* Activate, lines 210-211: shutdown returns, `continue`
Reconnect ==
    /\ mpc # "returned"
    /\ pc = "sd_wait"
    /\ attempt < MaxReconnects
    /\ ShutdownSelect("ctl")
    /\ attempt' = attempt + 1
    /\ pc' = "newContext"
    /\ UNCHANGED <<attach, prevError, err, fi, steps, ctxVars, syVars,
                   syConnected, fwdVars, devForward, errLogged, destroyVars, calls, chanVars, taskVars,
                   signalled, exitLog, mainVars>>

SendExit_KeepsLooping ==
    /\ mpc # "returned"
    /\ pc = "sendExit"
    /\ Len(Exit) < ChanCap
    /\ Exit' = Append(Exit, err)
    /\ exitLog' = Append(exitLog, err)
    /\ wg' = wg - 1
    /\ pc' = "newContext"
    /\ UNCHANGED <<attempt, attach, prevError, err, fi, steps, ctxVars,
                   syVars, syConnected, fwdVars, devForward, errLogged, destroyVars,
                   calls, Running, Disconnect, ErrChan, shellSt, shellRes,
                   mon, sdVars, signalled, mainVars>>

\* Activate, `up.Exit <- v; return` with the deferred up.WG.Done
SendExit ==
    /\ mpc # "returned"
    /\ pc = "sendExit"
    /\ Len(Exit) < ChanCap
    /\ Exit' = Append(Exit, err)
    /\ exitLog' = Append(exitLog, err)
    /\ wg' = wg - 1
    /\ pc' = "done"
    /\ UNCHANGED <<attempt, attach, prevError, err, fi, steps, ctxVars,
                   syVars, syConnected, fwdVars, devForward, errLogged, destroyVars, calls, Running,
                   Disconnect, ErrChan, shellSt, shellRes, mon, sdVars,
                   signalled, mainVars>>

\* ---- the goroutines around the controller --------------------------------

ShellExit_SendsAgain ==
    /\ mpc # "returned"
    /\ \E i \in Iters, r \in {"nil", "exitError"} :
         /\ shellSt[i] = "running"
         /\ IF Len(Running) < ChanCap
               THEN /\ Running' = Append(Running, [from |-> i, res |-> r])
                    /\ UNCHANGED <<shellSt, wg, shellRes>>
               ELSE /\ shellSt' = [shellSt EXCEPT ![i] = "sending"]
                    /\ shellRes' = [shellRes EXCEPT ![i] = r]
                    /\ UNCHANGED <<Running, wg>>
    /\ UNCHANGED <<ctlVars, ctxVars, syVars, syConnected, fwdVars, devForward, errLogged, destroyVars, calls,
                   Disconnect, ErrChan, Exit, mon, sdVars, signalled, exitLog,
                   mainVars>>

\* Activate, lines 199-201: cmd.Wait returns in the goroutine of iteration i
\* and the result is sent on up.Running; a full channel blocks the send
ShellExit ==
    /\ mpc # "returned"
    /\ \E i \in Iters, r \in {"nil", "exitError"} :
         /\ shellSt[i] = "running"
         /\ IF Len(Running) < ChanCap
               THEN /\ Running' = Append(Running, [from |-> i, res |-> r])
                    /\ shellSt' = [shellSt EXCEPT ![i] = "done"]
                    /\ wg' = wg - 1
                    /\ UNCHANGED shellRes
               ELSE /\ shellSt' = [shellSt EXCEPT ![i] = "sending"]
                    /\ shellRes' = [shellRes EXCEPT ![i] = r]
                    /\ UNCHANGED <<Running, wg>>
    /\ UNCHANGED <<ctlVars, ctxVars, syVars, syConnected, fwdVars, devForward, errLogged, destroyVars, calls,
                   Disconnect, ErrChan, Exit, mon, sdVars, signalled, exitLog,
                   mainVars>>

\* Activate, lines 199-201: a blocked send on up.Running completes
ShellSend ==
    /\ mpc # "returned"
    /\ \E i \in Iters :
         /\ shellSt[i] = "sending"
         /\ Len(Running) < ChanCap
         /\ Running' = Append(Running, [from |-> i, res |-> shellRes[i]])
         /\ shellSt' = [shellSt EXCEPT ![i] = "done"]
         /\ shellRes' = [shellRes EXCEPT ![i] = "none"]
    /\ wg' = wg - 1
    /\ UNCHANGED <<ctlVars, ctxVars, syVars, syConnected, fwdVars, devForward, errLogged, destroyVars, calls,
                   Disconnect, ErrChan, Exit, mon, sdVars, signalled, exitLog,
                   mainVars>>

\* the Sy.Monitor goroutines that run: started and their context not cancelled
LiveMonitors == mon \ cancelled

\* Sy.Monitor: pushes a notification when it finds the engine disconnected
MonitorNotify ==
    /\ mpc # "returned"
    /\ LiveMonitors # {}
    /\ Disconnect < ChanCap
    /\ Disconnect' = Disconnect + 1
    /\ UNCHANGED <<ctlVars, ctxVars, syVars, syConnected, fwdVars, devForward, errLogged, destroyVars, calls,
                   Running, ErrChan, Exit, taskVars, sdVars, signalled,
                   exitLog, mainVars>>

\* PortForwardManager: a started manager reports an error on up.ErrChan
ForwarderReport ==
    /\ mpc # "returned"
    /\ (fwdStarted \ fwdStopped) \ cancelled # {}
    /\ ErrChan < ChanCap
    /\ ErrChan' = ErrChan + 1
    /\ UNCHANGED <<ctlVars, ctxVars, syVars, syConnected, fwdVars, devForward, errLogged, destroyVars, calls,
                   Running, Disconnect, Exit, taskVars, sdVars,
                   signalled, exitLog, mainVars>>

\* ---- the foreground: RunUp -----------------------------------------------

\* RunUp, lines 122-128 and 136: os.Interrupt is delivered on stop and the
\* select takes it; then the deferred shutdown up to its select
MainSelectStop ==
    /\ mpc = "select"
    /\ ret' = "nil"
    /\ intPhase' = IF pc \in SyncPcs THEN "Syncing"
                    ELSE IF pc = "sd_wait" \/ (pc = "newContext" /\ attempt >= 1)
                            THEN "Reconnecting"
                            ELSE "other"
    /\ intCtx' = ctxCur
    /\ ShutdownBegin("main")
    /\ mpc' = "sd_wait"
    /\ UNCHANGED <<ctlVars, syVars, syConnected, fwdVars, devForward, errLogged, destroyVars, calls, Running,
                   Disconnect, ErrChan, Exit, taskVars, signalled, exitLog>>

\* RunUp, lines 129-136, then the deferred shutdown up to its select
MainSelectExit ==
    /\ mpc = "select"
    /\ Exit # <<>>
    /\ ret' = Head(Exit)
    /\ Exit' = Tail(Exit)
    /\ ShutdownBegin("main")
    /\ mpc' = "sd_wait"
    /\ UNCHANGED <<ctlVars, syVars, syConnected, fwdVars, devForward, errLogged, destroyVars, calls, Running,
                   Disconnect, ErrChan, taskVars, signalled, exitLog,
                   intPhase, intCtx>>

\* RunUp: the deferred shutdown returns and RunUp returns `ret`
MainReturn ==
    /\ mpc = "sd_wait"
    /\ ShutdownSelect("main")
    /\ mpc' = "returned"
    /\ UNCHANGED <<ctlVars, ctxVars, syVars, syConnected, fwdVars, devForward, errLogged, destroyVars, calls,
                   chanVars, taskVars, signalled, exitLog, ret, intPhase, intCtx>>

Next ==
    \/ ActivateBegin
    \/ NewContext
    \/ DevMode
    \/ SyRun
    \/ AddSync
    \/ AddGUI
    \/ AddUser
    \/ FwdStart
    \/ Ping
    \/ Drain1
    \/ Override
    \/ Drain2
    \/ SetType
    \/ Restart
    \/ CmdStart
    \/ MonCtxDone
    \/ MonRunning
    \/ MonErrChan
    \/ MonDisconnect
    \/ Classify
    \/ Reconnect
    \/ SendExit
    \/ WGWaiter
    \/ ForwarderStopTask
    \/ ShellExit
    \/ ShellSend
    \/ MonitorNotify
    \/ ForwarderReport
    \/ MainSelectStop
    \/ MainSelectExit
    \/ MainReturn

Spec == Init /\ [][Next]_vars

TypeOK ==
    /\ attempt \in 0..MaxReconnects
    /\ wg \in 0..(2 * (MaxReconnects + 1) + 1)
    /\ Len(Running) <= ChanCap
    /\ Len(Exit) <= ChanCap
    /\ Disconnect \in 0..ChanCap
    /\ ErrChan \in 0..ChanCap

\* ---- okteto pipeline destroy (cmd/pipeline/destroy.go) --------------------

\* largest --timeout, in seconds, and the number of seconds the tickers run
MaxTimeout == 2
MaxTime == 3

DestroyErrors == {"errClient", "errDestroy", "errIntSig", "errTimeout",
                  "errFailed", "errLookup", "errAction"}
Panics == {"panicNilResp", "panicNewTicker"}

DestroyInit ==
    /\ UpInit
    /\ devForward = <<>>
    /\ dpc = "newClient"
    /\ wait \in BOOLEAN
    /\ timeout \in 0..MaxTimeout
    /\ pipeline \in {"deployed", "absent"}
    /\ legacy \in BOOLEAN
    /\ apiResult = "pending"
    /\ resp = "nil"
    /\ exit1 = <<>>
    /\ exit2 = <<>>
    /\ stop = 0
    /\ wpc = "none"
    /\ wres = "none"
    /\ elapsed = 0
    /\ tC = 0
    /\ toC = 0
    /\ expired = FALSE
    /\ latePolls = 0
    /\ dret = "none"

\* RunE returns e (or panics with e): the process ends
RunEReturn(e) ==
    /\ dret' = e
    /\ dpc' = "done"

\* destroyPipeline, lines 104-114
NewClient ==
    /\ dpc = "newClient"
    /\ \E ok \in BOOLEAN :
         IF ok THEN dpc' = "destroyPipeline" /\ UNCHANGED dret
               ELSE RunEReturn("errClient")
    /\ UNCHANGED <<wait, timeout, pipeline, legacy, apiResult, resp, exit1,
                   exit2, stop, wpc, wres, elapsed, tC, toC, expired,
                   latePolls, upVars>>

\* the response oktetoClient.DestroyPipeline returns with each result: nil
\* together with an error, else the deployment with or without an action
DestroyPipelineResponse(result) ==
    IF result = "ok"
       THEN IF legacy THEN "noAction" ELSE "action"
       ELSE "nil"

\* the goroutine of destroyPipeline, lines 116-128
DestroyCall ==
    /\ dpc # "done"
    /\ dpc # "newClient"
    /\ apiResult = "pending"
    /\ IF pipeline = "absent"
          THEN /\ apiResult' = "notFound"
               /\ resp' = DestroyPipelineResponse("notFound")
               /\ exit1' = Append(exit1, "nil")
               /\ UNCHANGED pipeline
          ELSE \E ok \in BOOLEAN :
                 IF ok
                    THEN /\ apiResult' = "ok"
                         /\ resp' = DestroyPipelineResponse("ok")
                         /\ exit1' = Append(exit1, "nil")
                         /\ pipeline' = "destroying"
                    ELSE /\ apiResult' = "error"
                         /\ resp' = DestroyPipelineResponse("error")
                         /\ exit1' = Append(exit1, "errDestroy")
                         /\ UNCHANGED pipeline
    /\ UNCHANGED <<dpc, wait, timeout, legacy, exit2, stop, wpc, wres,
                   elapsed, tC, toC, expired, latePolls, dret, upVars>>

\* RunE, lines 75-80, with the response r that destroyPipeline returned
AfterDestroy(r) ==
    IF ~wait
       THEN /\ RunEReturn("nil")
            /\ UNCHANGED <<stop, wpc>>
       ELSE IF r = "nil"
               THEN /\ RunEReturn("panicNilResp")
                    /\ UNCHANGED <<stop, wpc>>
               ELSE /\ dpc' = "waitUntilDestroyed"
                    /\ stop' = 0
                    /\ wpc' = "start"
                    /\ UNCHANGED dret

\* destroyPipeline, lines 130-132 and 139: `resp` is read while the goroutine
\* may still be about to write it
DestroySelectStop ==
    /\ dpc = "destroyPipeline"
    /\ stop > 0
    /\ AfterDestroy(resp)
    /\ UNCHANGED <<wait, timeout, pipeline, legacy, apiResult, resp, exit1,
                   exit2, wres, elapsed, tC, toC, expired, latePolls,
                   upVars>>

\* destroyPipeline, lines 133-139
DestroySelectExit ==
    /\ dpc = "destroyPipeline"
    /\ exit1 # <<>>
    /\ exit1' = Tail(exit1)
    /\ IF Head(exit1) # "nil"
          THEN /\ RunEReturn(Head(exit1))
               /\ UNCHANGED <<stop, wpc>>
          ELSE AfterDestroy(resp)
    /\ UNCHANGED <<wait, timeout, pipeline, legacy, apiResult, resp, exit2,
                   wres, elapsed, tC, toC, expired, latePolls, upVars>>

\* the goroutine of waitUntilDestroyed sends what waitToBeDestroyed returned
WaitReturn(e) ==
    /\ wres' = e
    /\ exit2' = Append(exit2, e)
    /\ wpc' = "returned"

\* time.NewTicker(d) panics unless d > 0
NewTickerPanics(d) == d <= 0

\* waitToBeDestroyed, lines 171-177, and deprecatedWaitToBeDestroyed, 184-189
WaitStart ==
    /\ dpc = "waitUntilDestroyed"
    /\ wpc = "start"
    /\ IF resp = "noAction"
          THEN IF NewTickerPanics(timeout)
                  THEN /\ RunEReturn("panicNewTicker")
                       /\ wpc' = "panicked"
                       /\ UNCHANGED <<wres, exit2>>
                  ELSE /\ \E ok \in BOOLEAN :
                            IF ok THEN wpc' = "loop" /\ UNCHANGED <<wres, exit2>>
                                  ELSE WaitReturn("errClient")
                       /\ UNCHANGED <<dpc, dret>>
          ELSE /\ \E ok \in BOOLEAN :
                    IF ok THEN wpc' = "action" /\ UNCHANGED <<wres, exit2>>
                          ELSE WaitReturn("errClient")
               /\ UNCHANGED <<dpc, dret>>
    /\ UNCHANGED <<wait, timeout, pipeline, legacy, apiResult, resp, exit1,
                   stop, elapsed, tC, toC, expired, latePolls, upVars>>

\* waitToBeDestroyed, line 178: oktetoClient.WaitForActionToFinish returns
ActionWait ==
    /\ dpc = "waitUntilDestroyed"
    /\ wpc = "action"
    /\ \E e \in {"nil", "errAction", "errTimeout"} : WaitReturn(e)
    /\ UNCHANGED <<dpc, wait, timeout, pipeline, legacy, apiResult, resp,
                   exit1, stop, elapsed, tC, toC, expired, latePolls, dret,
                   upVars>>

\* one second passes: `t` ticks, `to` ticks every `timeout` seconds; a tick
\* is dropped when the channel (capacity 1) still holds the previous one
Tick ==
    /\ dpc = "waitUntilDestroyed"
    /\ wpc = "loop"
    /\ elapsed < MaxTime
    /\ elapsed' = elapsed + 1
    /\ tC' = 1
    /\ toC' = IF (elapsed + 1) % timeout = 0 THEN 1 ELSE toC
    /\ expired' = (\/ expired
                   \/ /\ (elapsed + 1) % timeout = 0
                      /\ pipeline \in {"deployed", "destroying"})
    /\ UNCHANGED <<dpc, wait, timeout, pipeline, legacy, apiResult, resp,
                   exit1, exit2, stop, wpc, wres, latePolls, dret, upVars>>

\* deprecatedWaitToBeDestroyed, lines 193-194
LoopTimeout ==
    /\ dpc = "waitUntilDestroyed"
    /\ wpc = "loop"
    /\ toC > 0
    /\ toC' = toC - 1
    /\ WaitReturn("errTimeout")
    /\ UNCHANGED <<dpc, wait, timeout, pipeline, legacy, apiResult, resp,
                   exit1, stop, elapsed, tC, expired, latePolls, dret,
                   upVars>>

\* deprecatedWaitToBeDestroyed, lines 195-206
LoopPoll ==
    /\ dpc = "waitUntilDestroyed"
    /\ wpc = "loop"
    /\ tC > 0
    /\ tC' = tC - 1
    /\ latePolls' = IF expired THEN latePolls + 1 ELSE latePolls
    /\ \E lookupOk \in BOOLEAN :
         IF ~lookupOk
            THEN WaitReturn("errLookup")
            ELSE IF pipeline = "absent"
                    THEN WaitReturn("nil")
                    ELSE IF pipeline = "error"
                            THEN WaitReturn("errFailed")
                            ELSE UNCHANGED <<wpc, wres, exit2>>
    /\ UNCHANGED <<dpc, wait, timeout, pipeline, legacy, apiResult, resp,
                   exit1, stop, elapsed, toC, expired, dret, upVars>>

\* waitUntilDestroyed, lines 156-159
WaitSelectStop ==
    /\ dpc = "waitUntilDestroyed"
    /\ stop > 0
    /\ RunEReturn("errIntSig")
    /\ UNCHANGED <<wait, timeout, pipeline, legacy, apiResult, resp, exit1,
                   exit2, stop, wpc, wres, elapsed, tC, toC, expired,
                   latePolls, upVars>>

\* waitUntilDestroyed, lines 160-167, and RunE, lines 80-87
WaitSelectExit ==
    /\ dpc = "waitUntilDestroyed"
    /\ exit2 # <<>>
    /\ exit2' = Tail(exit2)
    /\ RunEReturn(Head(exit2))
    /\ UNCHANGED <<wait, timeout, pipeline, legacy, apiResult, resp, exit1,
                   stop, wpc, wres, elapsed, tC, toC, expired, latePolls,
                   upVars>>

\* the control plane destroys the pipeline, or the destruction fails
PipelineProgress ==
    /\ dpc # "done"
    /\ pipeline = "destroying"
    /\ pipeline' \in {"absent", "error"}
    /\ UNCHANGED <<dpc, wait, timeout, legacy, apiResult, resp, exit1, exit2,
                   stop, wpc, wres, elapsed, tC, toC, expired, latePolls,
                   dret, upVars>>

\* os.Interrupt is delivered to the `stop` channel registered last
Interrupt ==
    /\ dpc \in {"destroyPipeline", "waitUntilDestroyed"}
    /\ stop = 0
    /\ stop' = 1
    /\ UNCHANGED <<dpc, wait, timeout, pipeline, legacy, apiResult, resp,
                   exit1, exit2, wpc, wres, elapsed, tC, toC, expired,
                   latePolls, dret, upVars>>

DestroyNext ==
    \/ NewClient
    \/ DestroyCall
    \/ DestroySelectStop
    \/ DestroySelectExit
    \/ WaitStart
    \/ ActionWait
    \/ Tick
    \/ LoopTimeout
    \/ LoopPoll
    \/ WaitSelectStop
    \/ WaitSelectExit
    \/ PipelineProgress
    \/ Interrupt

DestroySpec == DestroyInit /\ [][DestroyNext]_vars

DestroyTypeOK ==
    /\ dret \in {"none", "nil"} \cup DestroyErrors \cup Panics
    /\ wres \in {"none", "nil"} \cup DestroyErrors
    /\ Len(exit1) <= ChanCap
    /\ Len(exit2) <= ChanCap
    /\ tC \in 0..ChanCap
    /\ toC \in 0..ChanCap
    /\ elapsed \in 0..MaxTime
    /\ latePolls \in 0..MaxTime

\* ---- properties -----------------------------------------------------------

Range(f) == {f[i] : i \in DOMAIN f}

\* C1: when the monitor's select leaves the loop while up.Running holds a
\* successful completion (nil), WaitUntilExitOrInterrupt returns nil, so the
\* session ends cleanly whatever up.Disconnect holds.
C1_SuccessfulCompletionWins ==
    [][(/\ pc = "monitor"
        /\ Running # <<>>
        /\ Head(Running).res = "nil"
        /\ pc' = "classify") => prevError' = "nil"]_vars

\* C2: a CommandFailed is recoverable exactly when IsConnected reported
\* false at the classification: then the controller is in shutdown or in a
\* later iteration and never exits with nil on its account; when IsConnected
\* reported true the controller only sends on Exit and is done.
C2_CommandFailedRecoverableIffDisconnected ==
    (prevError = ErrCommandFailed /\ pc # "classify") =>
        IF syConnected
           THEN pc \in {"sendExit", "done"} /\ err = "nil"
           ELSE /\ pc = "sd_wait" \/ (attempt >= 1 /\ pc # "start")
                /\ ~(pc \in {"sendExit", "done"} /\ err = "nil")

C2_Witness ==
    /\ prevError = ErrCommandFailed
    /\ ~syConnected
    /\ attempt = 1
    /\ pc = "devMode"

\* C3: RunUp returns nil only after an interrupt or a clean end of the
\* monitor; a terminal CommandFailed makes it return a non-nil error.
C3_NilOnlyForCleanExit ==
    (mpc = "returned" /\ ret = "nil") => (intPhase # "none" \/ prevError = "nil")

\* C4: on a reconnection (attempt >= 1) a failure of a call of startSync is
\* not sent on Exit: the controller starts over instead.
C4_SyncFailureRecoverableOnRetry ==
    (attempt >= 1 /\ err \in SyncErrors) => pc \notin {"sendExit", "done"}

\* C5: in every iteration a failed devMode ends the session: no call of
\* startSync or later is made in that iteration, no Forwarder or Monitor is
\* started, the controller only sends that error on Exit, and RunUp, when it
\* returns by the Exit case, returns that same error.
C5_ConnectFailureFatal ==
    steps["devMode"] = "fail" =>
        /\ pc \in {"sendExit", "done"}
        /\ err \in DevModeErrors
        /\ \A s \in StepNames \ {"devMode"} : steps[s] = "no"
        /\ fwdCur # iter
        /\ iter \notin fwdStarted
        /\ iter \notin mon
        /\ pc = "done" => exitLog = <<err>>
        /\ (mpc # "select" /\ intPhase = "none") => ret = err

C5_Witness ==
    /\ attempt = 1
    /\ steps["devMode"] = "fail"
    /\ mpc = "returned"
    /\ ret \in DevModeErrors

\* C6: when the monitor takes a disconnect notification it asks the shell to
\* stop and returns ErrLostConnection; the controller then runs shutdown and
\* goes on to a new context and devMode; none of these steps receives from
\* up.Running.
C6_DisconnectReconnects ==
    [][/\ (pc = "monitor" /\ Disconnect' < Disconnect) =>
            /\ pc' = "classify"
            /\ prevError' = ErrLostConnection
            /\ iter \in signalled'
            /\ Running' = Running
       /\ (pc = "classify" /\ prevError = ErrLostConnection /\ pc' # pc) =>
            /\ pc' = "sd_wait"
            /\ ctxCur \in cancelled'
            /\ Running' = Running
       /\ (pc = "sd_wait" /\ pc' # pc) =>
            /\ pc' = "newContext"
            /\ attempt' = attempt + 1
            /\ Running' = Running
       /\ (pc = "newContext" /\ pc' # pc) => pc' = "devMode"]_vars

C6_Witness ==
    /\ attempt = 1
    /\ pc = "devMode"
    /\ prevError = ErrLostConnection
    /\ shellSt[1] = "running"
    /\ 1 \in signalled
    /\ Running = <<>>

\* C7: when RunUp takes the interrupt while the controller is in startSync,
\* the context the controller uses is cancelled, the deferred shutdown can
\* always return, and RunUp returns nil.
C7_InterruptWhileSyncing ==
    intPhase = "Syncing" =>
        /\ intCtx # 0
        /\ intCtx \in cancelled
        /\ ret = "nil"
        /\ mpc \in {"sd_wait", "returned"}
        /\ mpc = "sd_wait" => ENABLED MainReturn

C7_Witness ==
    /\ intPhase = "Syncing"
    /\ mpc = "returned"
    /\ ret = "nil"
    /\ ctxCur = intCtx

\* C8: the engine's Type is "sendreceive" only if the first WaitForCompletion
\* of that engine has succeeded.
C8_BidirectionalAfterFirstDrain ==
    /\ syType = "sendreceive" => syFirstDrain = "ok"
    /\ steps["setType"] # "no" => steps["drain1"] = "ok"

C8_Witness ==
    /\ attempt = 1
    /\ syId = 2
    /\ syType = "sendreceive"

\* C9: within an iteration each call is made only after the previous one has
\* succeeded, and the shell of the iteration exists only if every call of the
\* iteration has succeeded.
C9_StrictSequence ==
    /\ steps["ping"] # "no" => steps["fwdStart"] = "ok"
    /\ steps["drain1"] # "no" => steps["ping"] = "ok"
    /\ steps["override"] # "no" => steps["drain1"] = "ok"
    /\ steps["drain2"] # "no" => steps["override"] = "ok"
    /\ steps["setType"] # "no" => steps["drain2"] = "ok"
    /\ steps["restart"] # "no" => steps["setType"] = "ok"
    /\ steps["cmdStart"] # "no" => steps["restart"] = "ok"
    /\ (shellSt[iter] # "none" /\ pc # "newContext") =>
           \A s \in StepNames : steps[s] = "ok"

C9_Witness ==
    /\ attempt = 1
    /\ shellSt[2] = "running"
    /\ pc = "monitor"

\* C10: Forwarder.Start is invoked only when the sync-control port, the
\* sync-GUI port and every user forward are registered; after a failed Add
\* Start is not invoked in the iteration and the Add's error ends the session.
C10_StartAfterAllRegistered ==
    /\ steps["fwdStart"] # "no" =>
           /\ steps["addSync"] = "ok"
           /\ steps["addGUI"] = "ok"
           /\ steps["addUser"] = "ok"
           /\ fwdPorts = {SyRemotePort, SyGUIPort} \cup Range(devForward)
           /\ Cardinality(fwdPorts) = 2 + Len(devForward)
    /\ (\E s \in {"addSync", "addGUI", "addUser"} : steps[s] = "fail") =>
           /\ steps["fwdStart"] = "no"
           /\ iter \notin fwdStarted
           /\ pc \in {"sendExit", "done"}
           /\ err \in AddErrors

C10_Witness ==
    /\ steps["fwdStart"] = "ok"
    /\ Len(devForward) >= 1
    /\ attempt = 1

\* C11: once the shutdown of the reconnect path has returned (the controller
\* is in the next iteration), up.Running holds no completion produced by the
\* shell of an iteration that was shut down.
C11_NoStaleEventAfterShutdown ==
    \A k \in 1..Len(Running) : Running[k].from >= iter

C13_OneOverrideOneFlip ==
    /\ calls.override <= 1
    /\ calls.setType <= 1
    /\ shellSt[iter] # "none" =>
           /\ calls = [override |-> 1, setType |-> 1]
           /\ syType = "sendreceive"

C13_Witness ==
    /\ attempt = 0
    /\ pc = "monitor"
    /\ shellSt[1] = "running"
    /\ steps["ping"] = "ok"
    /\ calls = [override |-> 1, setType |-> 1]

\* C14: no goroutine is left blocked in its send on up.Running: when RunUp
\* returns and the process ends, every send that was begun has completed.
C14_NoSendBlockedForever ==
    mpc = "returned" => \A i \in Iters : shellSt[i] # "sending"

\* C18: when RunUp has taken the interrupt and its shutdown has returned, the
\* context the controller uses is cancelled.
C18_InterruptIsTerminal ==
    (mpc = "returned" /\ intPhase # "none") =>
        (ctxCur # 0 => ctxCur \in cancelled)

\* C19: a manager is only ever stopped by a shutdown of its own iteration:
\* every stopped manager belongs to an iteration the reconnect path has shut
\* down or is shutting down, unless RunUp itself has begun its shutdown.
C19_StopHitsTornDownManager ==
    \A f \in fwdStopped :
        \/ f < iter
        \/ f = iter /\ pc = "sd_wait"
        \/ mpc # "select"

\* C20: a completion the monitor takes from up.Running was produced by the
\* shell of the iteration the monitor belongs to.
C20_CompletionOfCurrentShell ==
    [][(/\ pc = "monitor"
        /\ Running # <<>>
        /\ Len(Running') < Len(Running)) => Head(Running).from = iter]_vars

\* C15: when the control plane reports the pipeline as not found, RunE ends
\* with a nil error, with and without --wait, and a poll of the legacy loop
\* that finds the pipeline gone makes the loop return nil.
C15_NotFoundIsSuccess ==
    (apiResult = "notFound" /\ dpc = "done") => dret = "nil"

\* C16: once the timeout ticker has fired with the pipeline still there and
\* not failed, the legacy loop makes no further status poll and returns the
\* timeout error; whenever the loop returns its outcome is one of success,
\* pipeline failed, lookup failed and timeout.
C16_TimeoutIsTerminal ==
    /\ latePolls = 0
    /\ (expired /\ wpc = "returned") => wres = "errTimeout"
    /\ (resp = "noAction" /\ wpc = "returned" /\ wres # "errClient") =>
           wres \in {"nil", "errFailed", "errLookup", "errTimeout"}

\* C17: with --wait and --timeout 0 on the legacy path, the wait neither ends
\* with the timeout error nor terminates the command abnormally.
C17_ZeroTimeoutNeverExpires ==
    (wait /\ timeout = 0 /\ resp = "noAction" /\ wpc # "none") =>
        /\ wres # "errTimeout"
        /\ dret \notin Panics

\* C21: a caller that is in the select of shutdown can always leave it,
\* whatever the tracked tasks do: RunUp can return, and Activate can go on to
\* its next iteration.
C21_ShutdownAlwaysReturns ==
    /\ mpc = "sd_wait" => ENABLED MainReturn
    /\ (pc = "sd_wait" /\ mpc # "returned" /\ attempt < MaxReconnects) =>
           ENABLED Reconnect

C21_Witness ==
    /\ attempt = 1
    /\ sdVia["ctl"] = "timeout"
    /\ shellSt[1] = "running"
    /\ wg >= 2

\* C22: while Activate is in the select of the shutdown of its reconnect path
\* and every shell goroutine and Sy.Monitor of the session has exited, the
\* wait on up.WG is over or can end, so that `done` is or can be closed.
C22_ReconnectShutdownViaDone ==
    (/\ pc = "sd_wait"
     /\ mpc # "returned"
     /\ done["ctl"] # "none"
     /\ \A i \in Iters : shellSt[i] \in {"none", "done"}
     /\ LiveMonitors = {}) =>
        (done["ctl"] = "closed" \/ ENABLED WGWaiter)

\* C23: Activate never sends a second value on up.Exit, it has sent exactly
\* one when it has returned, its send finds room in the channel, and after
\* it has returned it starts no phase, shell or reconnect.
C23_ExactlyOneExit ==
    /\ [](/\ Len(exitLog) <= 1
          /\ pc = "done" <=> Len(exitLog) = 1
          /\ pc = "sendExit" => Len(Exit) < ChanCap)
    /\ [][pc = "done" =>
            /\ UNCHANGED <<ctlVars, ctxCur, calls, syVars, fwdCur, fwdPorts,
                           fwdStarted, mon, exitLog>>
            /\ \A i \in Iters : shellSt[i] = "none" => shellSt'[i] = "none"]_vars

C23_Witness ==
    /\ pc = "done"
    /\ attempt = 1
    /\ Len(exitLog) = 1
    /\ mpc = "returned"
    /\ ret = exitLog[1]

\* C24: when the monitor returns while the context of its iteration is
\* cancelled, it does not return ErrLostConnection, the result that makes
\* Activate run shutdown and start a reconnect iteration instead of sending
\* nil on up.Exit.
C24_CancelEndsCleanly ==
    [][(pc = "monitor" /\ ctxCur \in cancelled /\ pc' = "classify") =>
           prevError' # ErrLostConnection]_vars

\* C25: the step in which the monitor takes a report from up.ErrChan leaves
\* the controller in the monitor of the same iteration and changes neither
\* the shell's stop request, the contexts, the engine, the managers, the
\* tasks nor the contents of up.Running, up.Disconnect and up.Exit.
C25_ErrorReportOnlyLogged ==
    [][(pc = "monitor" /\ ErrChan' < ErrChan) =>
           UNCHANGED <<ctlVars, ctxVars, syVars, fwdVars, Running, Disconnect,
                       Exit, taskVars, sdVars, signalled, exitLog,
                       mainVars>>]_vars

C25_Witness ==
    /\ errLogged
    /\ pc = "monitor"
    /\ ErrChan = 0
    /\ shellSt[iter] = "running"
    /\ iter \notin signalled

\* C26: a step puts a completion on up.Running exactly when the cmd.Wait
\* goroutine of one launched shell ends, and that goroutine stays ended, so
\* no shell delivers twice; the monitor only runs for a launched shell; and
\* when cmd.Start fails no shell goroutine exists for the iteration, the
\* failure is the one value sent on up.Exit and Activate starts nothing more.
C26_OneCompletionPerShell ==
    /\ [](/\ pc = "monitor" => shellSt[iter] # "none"
          /\ steps["cmdStart"] = "fail" =>
                /\ shellSt[iter] = "none"
                /\ pc \in {"sendExit", "done"}
                /\ err = "errCmdStart"
                /\ pc = "done" => exitLog = <<"errCmdStart">>)
    /\ [][/\ Len(Running') > Len(Running) =>
               \E i \in Iters :
                  /\ shellSt[i] \in {"running", "sending"}
                  /\ shellSt'[i] = "done"
                  /\ Len(Running') = Len(Running) + 1
                  /\ Running'[Len(Running')].from = i
                  /\ \A j \in Iters \ {i} : shellSt'[j] = shellSt[j]
          /\ \A i \in Iters :
               /\ shellSt[i] = "done" => shellSt'[i] = "done"
               /\ (shellSt[i] # "done" /\ shellSt'[i] = "done") =>
                     /\ Len(Running') = Len(Running) + 1
                     /\ Running'[Len(Running')].from = i
               /\ (shellSt[i] = "none" /\ shellSt'[i] # "none") =>
                     /\ i = iter
                     /\ pc = "cmdStart"
                     /\ shellSt'[i] = "running"]_vars

C26_Witness ==
    /\ attempt = 1
    /\ shellSt[1] = "done"
    /\ steps["cmdStart"] = "fail"
    /\ shellSt[2] = "none"
    /\ pc = "done"
    /\ exitLog = <<"errCmdStart">>

====
